---- MODULE Spec2Model ----
(***************************************************************************)
(* State-machine model of the streaming ask-operation of the web UI        *)
(* (webui/src/components/QueryInterface.jsx): the React state of the       *)
(* component, the handleAsk coroutine (fetch, read loop, line decoder,     *)
(* payload dispatch), the user events that start it, and the               *)
(* saveToKnowledgeBase handler behind the Save button.                     *)
(*                                                                         *)
(* JavaScript is run-to-completion: everything between two awaits is one   *)
(* uninterruptible block.  The model keeps that: while an operation is     *)
(* working through the lines of a chunk (pc = "lines") no other handler    *)
(* runs.  The per-line steps only make the intermediate values of the      *)
(* state setters visible to the properties.                                *)
(*                                                                         *)
(* Next is the ask-operation alone; NextSave adds the Save button, whose   *)
(* handler writes none of the variables the ask-operation reads.           *)
(*                                                                         *)
(* Left out: activeTab, which only selects the panel that is drawn, and    *)
(* the list of databases offered by the select box.                        *)
(***************************************************************************)
EXTENDS Integers, Sequences, FiniteSets, TLC

(***************************************************************************)
(* Bounds of the model.                                                    *)
(***************************************************************************)
\* frames per response in the specifications that draw frames from Bodies
MaxFrames == 2
\* wire lines per response in the decoder specification
MaxLines == 2
\* frames per response when two ask-operations overlap
MaxOverlapFrames == 1
\* requests the Save button may issue in one behaviour
MaxSaves == 1
\* wire lines per response in the specification of event names
MaxEventLines == 3
\* wire lines per response in the specification of multi-line blocks
MaxBlockLines == 3
\* frames per response in the specification of the reasoning text
MaxReasoningFrames == 3

(***************************************************************************)
(* Text.  A text is a sequence of characters; a character is one atom.     *)
(* "NL" is the line feed, "SP" a white-space character, "da" "ta:" the two *)
(* halves of the marker data: and "ev" "ent:" those of event:, "{" and "}" *)
(* the braces of a JSON object, "nm" and "nx" event-name characters,       *)
(* "eacute" a character whose UTF-8 encoding has two bytes, "FFFD" the     *)
(* replacement                                                             *)
(* character.  Every other atom stands for the text between the braces of  *)
(* one JSON object (see Obj).                                              *)
(***************************************************************************)
null == "null"
nullObj == [null |-> TRUE]
emptyObj == <<>>

\* JavaScript's String.prototype.trim on a text
RECURSIVE TrimLeft(_)
TrimLeft(t) == IF t # <<>> /\ Head(t) = "SP" THEN TrimLeft(Tail(t)) ELSE t

RECURSIVE TrimRight(_)
TrimRight(t) ==
  IF t # <<>> /\ t[Len(t)] = "SP" THEN TrimRight(SubSeq(t, 1, Len(t) - 1)) ELSE t

Trim(t) == TrimRight(TrimLeft(t))

StartsWith(t, marker) ==
  Len(t) >= Len(marker) /\ SubSeq(t, 1, Len(marker)) = marker

\* line.substring(n), n the length of the marker
Substring(t, marker) == SubSeq(t, Len(marker) + 1, Len(t))

DataMarker == <<"da", "ta:">>
EventMarker == <<"ev", "ent:">>

\* buffer.split('\n'): n line feeds give n + 1 segments
RECURSIVE Split(_)
Split(t) ==
  IF \A i \in 1..Len(t) : t[i] # "NL"
  THEN <<t>>
  ELSE LET i == CHOOSE k \in 1..Len(t) :
                  t[k] = "NL" /\ \A j \in 1..(k - 1) : t[j] # "NL"
       IN  <<SubSeq(t, 1, i - 1)>> \o Split(SubSeq(t, i + 1, Len(t)))

\* lines.pop() || ''
ResidueDropped(segments) == <<>>
ResidueWithLastLine(segments) ==
  IF Len(segments) >= 2
  THEN segments[Len(segments) - 1] \o <<"NL">> \o segments[Len(segments)]
  ELSE segments[Len(segments)]
Residue(segments) == segments[Len(segments)]

\* what is left in `lines` after lines.pop()
CompleteLinesWithResidue(segments) == segments
CompleteLines(segments) == SubSeq(segments, 1, Len(segments) - 1)

(***************************************************************************)
(* TextDecoder.decode(value, {stream: true}): UTF-8 bytes to characters.   *)
(* "xC3" is the lead byte and "xA9" the trail byte of "eacute"; every     *)
(* other                                                                   *)
(* byte is a one-byte character.  A lead byte at the end of a chunk is     *)
(* kept in the decoder until the next chunk.                               *)
(***************************************************************************)
Lead == "xC3"
Trail == "xA9"

RECURSIVE Utf8(_, _)
Utf8(pend, bytes) ==
  IF bytes = <<>> THEN [chars |-> <<>>, pend |-> pend]
  ELSE LET b == Head(bytes) IN
       IF pend # <<>>
       THEN IF b = Trail
            THEN LET r == Utf8(<<>>, Tail(bytes))
                 IN  [chars |-> <<"eacute">> \o r.chars, pend |-> r.pend]
            ELSE LET r == Utf8(<<>>, bytes)
                 IN  [chars |-> <<"FFFD">> \o r.chars, pend |-> r.pend]
       ELSE IF b = Lead THEN Utf8(<<Lead>>, Tail(bytes))
       ELSE LET r == Utf8(<<>>, Tail(bytes))
            IN  [chars |-> <<(IF b = Trail THEN "FFFD" ELSE b)>> \o r.chars,
                 pend |-> r.pend]

Decode(pend, bytes) == Utf8(pend, bytes)

(***************************************************************************)
(* JSON.  Bodies names the payloads the backend may send; Obj gives the    *)
(* object each parses to and BodyText the characters between its braces.   *)
(***************************************************************************)
Bodies ==
  { "step", "stepMsg", "chunkA", "chunkB", "reasoning", "sql", "fix",
    "explain", "answer", "rows", "rowsFixed", "error", "final",
    "fixOnly", "finalAnswer", "finalFull", "msgError", "msgInfo",
    "errorRows", "errorSql", "finalFailed" }

\* payloads that carry an error together with another field, and the
\* snapshot of a failed execution
MixedBodies == {"errorRows", "errorSql", "finalFailed"}

Obj(b) ==
  CASE b = "step"        -> [step |-> "parsing"]
    [] b = "stepMsg"     -> [step |-> "sql", message |-> "Generating SQL"]
    [] b = "chunkA"      -> [chunk |-> "A"]
    [] b = "chunkB"      -> [chunk |-> "B"]
    [] b = "reasoning"   -> [reasoning |-> "C"]
    [] b = "sql"         -> [sql |-> "SELECT 1"]
    [] b = "fix"         -> [attempts |-> 2, sql |-> "SELECT 1 FIX"]
    [] b = "fixOnly"     -> [attempts |-> 2]
    [] b = "explain"     -> [explanation |-> "X"]
    [] b = "answer"      -> [natural_language_answer |-> "N e"]
    [] b = "rows"        -> [row_count |-> 10, execution_time_ms |-> 12]
    [] b = "rowsFixed"   -> [row_count |-> 0, execution_time_ms |-> 12,
                             auto_fixed |-> TRUE, fix_attempts |-> 3]
    [] b = "error"       -> [error |-> "syntax error"]
    [] b = "final"       -> [query_id |-> "q-1"]
    [] b = "finalAnswer" -> [query_id |-> "q-1", natural_language_answer |-> "N"]
    [] b = "finalFull"   -> [query_id |-> "q-2", question |-> "top 10",
                             execution_result |->
                               [success |-> TRUE, row_count |-> 10],
                             metadata |-> [model |-> "m"]]
    [] b = "msgError"    -> [message |-> "an error occurred"]
    [] b = "msgInfo"     -> [message |-> "done"]
    [] b = "errorRows"   -> [error |-> "timeout", row_count |-> 0]
    [] b = "errorSql"    -> [error |-> "no such table", sql |-> "SELECT 2"]
    [] b = "finalFailed" -> [query_id |-> "q-3",
                             execution_result |->
                               [success |-> FALSE, error |-> "no such table"]]

BodyText(b) == IF b = "answer" THEN <<"answer", "eacute">> ELSE <<b>>

\* JSON.parse: white space between tokens is insignificant; anything that is
\* not one object throws
JSONParse(t) ==
  LET s == SelectSeq(t, LAMBDA a : a # "SP")
      inner == SubSeq(s, 2, Len(s) - 1)
      wellFormed == /\ Len(s) >= 2
                    /\ s[1] = "{"
                    /\ s[Len(s)] = "}"
                    /\ \/ inner = <<>>
                       \/ \E b \in Bodies : BodyText(b) = inner
  IN  [ok  |-> wellFormed,
       obj |-> IF ~wellFormed \/ inner = <<>> THEN emptyObj
               ELSE Obj(CHOOSE b \in Bodies : BodyText(b) = inner)]

\* JavaScript truthiness of data[k]: absent, '', 0 and false are falsy
NumKeys == {"attempts", "row_count", "fix_attempts", "execution_time_ms"}
BoolKeys == {"auto_fixed", "success"}
ObjKeys == {"metadata", "execution_result"}

Has(o, k) == k \in DOMAIN o

Truthy(o, k) ==
  /\ Has(o, k)
  /\ IF k \in NumKeys THEN o[k] # 0
     ELSE IF k \in BoolKeys THEN o[k]
     ELSE IF k \in ObjKeys THEN TRUE
     ELSE o[k] # ""

\* String.prototype.includes
Includes(s, t) ==
  \E i \in 1..(Len(s) - Len(t) + 1) : SubSeq(s, i, i + Len(t) - 1) = t


undefined == "undefined"

Field(o, k) == IF Has(o, k) THEN o[k] ELSE undefined

\* {...prev}: spreading null gives no properties
Spread(prev) == IF prev = nullObj THEN emptyObj ELSE prev

\* prev?.metadata || {}
MetadataDropped(prev) == emptyObj
MetadataOf(prev) ==
  IF prev # nullObj /\ Has(prev, "metadata") THEN prev["metadata"] ELSE emptyObj

(***************************************************************************)
(* The dispatch of handleAsk on a parsed payload: the first test of the    *)
(* if / else-if chain that succeeds names the update.                      *)
(***************************************************************************)
ClassifyMessageAsError(data) ==
  IF Truthy(data, "step") THEN "StepNotice"
  ELSE IF Truthy(data, "chunk") THEN "ReasoningChunk"
  ELSE IF Truthy(data, "reasoning") THEN "ReasoningFull"
  ELSE IF Truthy(data, "sql") THEN "SqlProduced"
  ELSE IF Truthy(data, "attempts") THEN "SqlCorrected"
  ELSE IF Truthy(data, "explanation") THEN "ExplanationProduced"
  ELSE IF Truthy(data, "natural_language_answer") THEN "AnswerProduced"
  ELSE IF Has(data, "row_count") THEN "ExecutionOutcome"
  ELSE IF Truthy(data, "error") THEN "ExecutionFailed"
  ELSE IF Truthy(data, "query_id") THEN "FinalResult"
  ELSE IF Truthy(data, "message")
       THEN "GenericError"
  ELSE "Dropped"

Classify(data) ==
  IF Truthy(data, "step") THEN "StepNotice"
  ELSE IF Truthy(data, "chunk") THEN "ReasoningChunk"
  ELSE IF Truthy(data, "reasoning") THEN "ReasoningFull"
  ELSE IF Truthy(data, "sql") THEN "SqlProduced"
  ELSE IF Truthy(data, "attempts") THEN "SqlCorrected"
  ELSE IF Truthy(data, "explanation") THEN "ExplanationProduced"
  ELSE IF Truthy(data, "natural_language_answer") THEN "AnswerProduced"
  ELSE IF Has(data, "row_count") THEN "ExecutionOutcome"
  ELSE IF Truthy(data, "error") THEN "ExecutionFailed"
  ELSE IF Truthy(data, "query_id") THEN "FinalResult"
  ELSE IF Truthy(data, "message") /\ Includes(data["message"], "error")
       THEN "GenericError"
  ELSE "Dropped"

TerminalKinds == {"ExecutionFailed", "FinalResult", "GenericError"}

\* the message of the row_count branch
ExecutedMessage(data) ==
  "Query executed successfully! " \o ToString(data["row_count"])
    \o " rows returned"
    \o (IF Truthy(data, "auto_fixed")
        THEN " (auto-fixed in " \o ToString(Field(data, "fix_attempts"))
               \o " attempts)"
        ELSE "")

\* setCurrentStep('') of the explanation, answer and query_id branches
StepKept(prev) == prev
StepCleared(prev) == ""

\* setStreamingReasoning(prev => prev + data.chunk)
AppendReasoningReplaces(prev, chunk) == chunk
AppendReasoning(prev, chunk) == prev \o chunk

\* setResult(data) of the query_id branch
FinalMerged(prev, data) == data @@ Spread(prev)
FinalKeepsLocal(prev, data) == Spread(prev) @@ data
FinalSnapshot(prev, data) == data

(***************************************************************************)
(* The effect of one parsed payload on the React state st =                *)
(* [loading, result, error, streamingReasoning, currentStep, isStreaming]. *)
(***************************************************************************)
Reduce(st, data) ==
  LET kind == Classify(data) IN
  CASE kind = "StepNotice" ->
         [st EXCEPT !.currentStep =
            IF Truthy(data, "message") THEN data["message"] ELSE data["step"]]
    [] kind = "ReasoningChunk" ->
         [st EXCEPT !.streamingReasoning = AppendReasoning(@, data["chunk"])]
    [] kind = "ReasoningFull" ->
         [st EXCEPT !.streamingReasoning = data["reasoning"]]
    [] kind = "SqlProduced" ->
         [st EXCEPT !.result = ("sql" :> data["sql"]) @@ Spread(@)]
    [] kind = "SqlCorrected" ->
         [st EXCEPT !.result =
            ("sql" :> Field(data, "sql")
               @@ "metadata" :> (("auto_fixed" :> TRUE
                                    @@ "fix_attempts" :> data["attempts"])
                                 @@ MetadataOf(@)))
            @@ Spread(@)]
    [] kind = "ExplanationProduced" ->
         [st EXCEPT !.result = ("sql_explanation" :> data["explanation"])
                                 @@ Spread(@),
                    !.currentStep = StepCleared(@)]
    [] kind = "AnswerProduced" ->
         [st EXCEPT !.result = ("natural_language_answer"
                                  :> data["natural_language_answer"])
                                 @@ Spread(@),
                    !.currentStep = StepCleared(@)]
    [] kind = "ExecutionOutcome" ->
         [st EXCEPT !.currentStep = ExecutedMessage(data),
                    !.result =
                      IF Truthy(data, "auto_fixed")
                      THEN ("metadata" :>
                              (("auto_fixed" :> TRUE
                                  @@ "fix_attempts" :> Field(data, "fix_attempts"))
                               @@ MetadataOf(@)))
                           @@ Spread(@)
                      ELSE @]
    [] kind = "ExecutionFailed" ->
         [st EXCEPT !.error = data["error"],
                    !.isStreaming = FALSE,
                    !.loading = FALSE]
    [] kind = "FinalResult" ->
         [st EXCEPT !.result = FinalSnapshot(@, data),
                    !.isStreaming = FALSE,
                    !.loading = FALSE,
                    !.currentStep = StepCleared(@)]
    [] kind = "GenericError" ->
         [st EXCEPT !.error = data["message"],
                    !.isStreaming = FALSE,
                    !.loading = FALSE]
    [] OTHER -> st

(***************************************************************************)
(* One iteration of `for (const line of lines)`: d is the decoder's state  *)
(* [currentEvent], st the React state.  LineKind names what the iteration  *)
(* did with the line.                                                      *)
(***************************************************************************)
LineKind(line) ==
  IF Trim(line) = <<>> THEN "Blank"
  ELSE IF StartsWith(line, EventMarker) THEN "Event"
  ELSE IF StartsWith(line, DataMarker)
       THEN LET p == JSONParse(Trim(Substring(line, DataMarker)))
            IN  IF p.ok THEN Classify(p.obj) ELSE "ParseError"
  ELSE "Ignored"

nullText == <<"null">>

LineEvent(line, ev) ==
  IF Trim(line) = <<>> THEN nullText
  ELSE IF StartsWith(line, EventMarker) THEN Trim(Substring(line, EventMarker))
  ELSE ev

LineEffectAbortsOnParseError(st, line) ==
  IF Trim(line) # <<>> /\ ~StartsWith(line, EventMarker)
       /\ StartsWith(line, DataMarker)
  THEN LET p == JSONParse(Trim(Substring(line, DataMarker)))
       IN  IF p.ok THEN Reduce(st, p.obj)
           ELSE [st EXCEPT !.error = "Unexpected end of JSON input",
                           !.isStreaming = FALSE]
  ELSE st
LineEffectNamesStep(st, line) ==
  IF Trim(line) # <<>> /\ StartsWith(line, EventMarker)
  THEN [st EXCEPT !.currentStep = "event"]
  ELSE IF Trim(line) # <<>> /\ StartsWith(line, DataMarker)
  THEN LET p == JSONParse(Trim(Substring(line, DataMarker)))
       IN  IF p.ok THEN Reduce(st, p.obj) ELSE st
  ELSE st

LineEffect(st, line) ==
  IF Trim(line) # <<>> /\ ~StartsWith(line, EventMarker)
       /\ StartsWith(line, DataMarker)
  THEN LET p == JSONParse(Trim(Substring(line, DataMarker)))
       IN  IF p.ok THEN Reduce(st, p.obj) ELSE st
  ELSE st


(***************************************************************************)
(* The component.                                                          *)
(***************************************************************************)
VARIABLES
  question,            \* useState('')
  databaseId,          \* useState('')
  loading,             \* useState(false)
  result,              \* useState(null)
  error,               \* useState(null)
  streamingReasoning,  \* useState('')
  currentStep,         \* useState('')
  isStreaming,         \* useState(false)
  scripts,             \* the bytes the backend answers the k-th request with
  nAsks,               \* handleAsk calls that passed validation so far
  pc,                  \* where each handleAsk call stands
  req,                 \* the body of the request each call sent
  pos,                 \* bytes of its response each call has read
  pending,             \* the TextDecoder's incomplete byte sequence
  buffer,              \* let buffer
  currentEvent,        \* let currentEvent
  lines,               \* lines of the current chunk not yet iterated over
  log,                 \* history: the lines each call iterated over, and
                       \* what each iteration did
  savingToKB,          \* useState(false)
  kbMessage,           \* useState(null)
  savePc,              \* where the saveToKnowledgeBase call stands
  kbPosts,             \* history: the requests axios.post was called with
  kbTimers,            \* setTimeout callbacks not yet run
  dmDatabaseId,        \* DatabaseManager: useState('') of databaseId
  dmLoading,           \* DatabaseManager: useState(false) of loading
  dmMessage,           \* DatabaseManager: useState(null) of message
  showAutoIndex,       \* useState(false)
  showTableSelection,  \* useState(false)
  discoveredTables,    \* useState([])
  selectedTables,      \* useState([])
  dmPc,                \* the request of DatabaseManager that is in flight
  autoIndexPost        \* the body last posted to /api/v1/mysql/auto-index

view == <<loading, result, error, streamingReasoning, currentStep, isStreaming>>

perCall == <<pc, req, pos, pending, buffer, currentEvent, lines, log>>

saveVars == <<savingToKB, kbMessage, savePc, kbPosts, kbTimers>>

managerVars == <<dmDatabaseId, dmLoading, dmMessage, showAutoIndex,
                 showTableSelection, discoveredTables, selectedTables, dmPc,
                 autoIndexPost>>

vars == <<question, databaseId, loading, result, error, streamingReasoning,
          currentStep, isStreaming, scripts, nAsks, pc, req, pos,
          pending, buffer, currentEvent, lines, log, savingToKB, kbMessage,
          savePc, kbPosts, kbTimers, dmDatabaseId, dmLoading, dmMessage,
          showAutoIndex, showTableSelection, discoveredTables,
          selectedTables, dmPc, autoIndexPost>>

State ==
  [loading |-> loading, result |-> result, error |-> error,
   streamingReasoning |-> streamingReasoning, currentStep |-> currentStep,
   isStreaming |-> isStreaming]

SetState(st) ==
  /\ loading' = st.loading
  /\ result' = st.result
  /\ error' = st.error
  /\ streamingReasoning' = st.streamingReasoning
  /\ currentStep' = st.currentStep
  /\ isStreaming' = st.isStreaming

Calls == DOMAIN scripts

\* no handleAsk call is in the middle of a synchronous block
Quiescent == \A i \in Calls : pc[i] # "lines"

Questions == {"", " ", "top 10"}
DatabaseIds == {"", "db1"}

\* String.prototype.trim on a JavaScript string
RECURSIVE TrimString(_)
TrimString(s) ==
  IF Len(s) > 0 /\ SubSeq(s, 1, 1) = " " THEN TrimString(SubSeq(s, 2, Len(s)))
  ELSE IF Len(s) > 0 /\ SubSeq(s, Len(s), Len(s)) = " "
       THEN TrimString(SubSeq(s, 1, Len(s) - 1))
  ELSE s

InitComponent ==
  /\ question = ""
  /\ databaseId = ""
  /\ loading = FALSE
  /\ result = nullObj
  /\ error = null
  /\ streamingReasoning = ""
  /\ currentStep = ""
  /\ isStreaming = FALSE
  /\ nAsks = 0
  /\ pc = [i \in Calls |-> "idle"]
  /\ req = [i \in Calls |-> nullObj]
  /\ pos = [i \in Calls |-> 0]
  /\ pending = [i \in Calls |-> <<>>]
  /\ buffer = [i \in Calls |-> <<>>]
  /\ currentEvent = [i \in Calls |-> nullText]
  /\ lines = [i \in Calls |-> <<>>]
  /\ log = [i \in Calls |-> <<>>]
  /\ savingToKB = FALSE
  /\ kbMessage = nullObj
  /\ savePc = "idle"
  /\ kbPosts = <<>>
  /\ kbTimers = 0
  /\ dmDatabaseId = ""
  /\ dmLoading = FALSE
  /\ dmMessage = nullObj
  /\ showAutoIndex = FALSE
  /\ showTableSelection = FALSE
  /\ discoveredTables = <<>>
  /\ selectedTables = <<>>
  /\ dmPc = "idle"
  /\ autoIndexPost = nullObj

(***************************************************************************)
(* User input.                                                             *)
(***************************************************************************)
SetQuestion(q) ==
  /\ Quiescent
  /\ question' = q
  /\ UNCHANGED <<managerVars, saveVars, databaseId, view, scripts, nAsks, perCall>>

SetDatabaseId(d) ==
  /\ Quiescent
  /\ databaseId' = d
  /\ UNCHANGED <<managerVars, saveVars, question, view, scripts, nAsks, perCall>>

(***************************************************************************)
(* handleAsk, up to its first await.                                       *)
(***************************************************************************)
ValidationMessage == "Please enter both a question and select a database"

HandleAskUnvalidated ==
  /\ nAsks < Len(scripts)
  /\ nAsks' = nAsks + 1
  /\ loading' = TRUE
  /\ error' = null
  /\ result' = nullObj
  /\ streamingReasoning' = ""
  /\ currentStep' = ""
  /\ isStreaming' = TRUE
  /\ pc' = [pc EXCEPT ![nAsks + 1] = "fetch"]
  /\ req' = [req EXCEPT ![nAsks + 1] =
               [question |-> question, database_id |-> databaseId,
                max_rows |-> 100]]
  /\ UNCHANGED <<managerVars, saveVars, question, databaseId, scripts, pos, pending,
                 buffer, currentEvent, lines, log>>
HandleAskKeepsResult ==
  IF TrimString(question) = "" \/ TrimString(databaseId) = ""
  THEN /\ error' = ValidationMessage
       /\ UNCHANGED <<managerVars, saveVars, question, databaseId, loading, result,
                      streamingReasoning, currentStep, isStreaming, scripts,
                      nAsks, perCall>>
  ELSE /\ nAsks < Len(scripts)
       /\ nAsks' = nAsks + 1
       /\ loading' = TRUE
       /\ error' = null
       /\ streamingReasoning' = ""
       /\ currentStep' = ""
       /\ isStreaming' = TRUE
       /\ pc' = [pc EXCEPT ![nAsks + 1] = "fetch"]
       /\ req' = [req EXCEPT ![nAsks + 1] =
                    [question |-> question, database_id |-> databaseId,
                     max_rows |-> 100]]
       /\ UNCHANGED <<managerVars, saveVars, question, databaseId, result, scripts, pos,
                      pending, buffer, currentEvent, lines, log>>

HandleAsk ==
  IF TrimString(question) = "" \/ TrimString(databaseId) = ""
  THEN /\ error' = ValidationMessage
       /\ UNCHANGED <<managerVars, saveVars, question, databaseId, loading, result,
                      streamingReasoning, currentStep, isStreaming, scripts,
                      nAsks, perCall>>
  ELSE /\ nAsks < Len(scripts)
       /\ nAsks' = nAsks + 1
       /\ loading' = TRUE
       /\ error' = null
       /\ result' = nullObj
       /\ streamingReasoning' = ""
       /\ currentStep' = ""
       /\ isStreaming' = TRUE
       /\ pc' = [pc EXCEPT ![nAsks + 1] = "fetch"]
       /\ req' = [req EXCEPT ![nAsks + 1] =
                    [question |-> question, database_id |-> databaseId,
                     max_rows |-> 100]]
       /\ UNCHANGED <<managerVars, saveVars, question, databaseId, scripts, pos, pending, buffer,
                      currentEvent, lines, log>>

\* the Ask button: disabled={loading}
ClickAsk ==
  /\ Quiescent
  /\ ~loading
  /\ HandleAsk

KeyEvents ==
  { [key |-> "Enter", modifier |-> TRUE],
    [key |-> "Enter", modifier |-> FALSE],
    [key |-> "a", modifier |-> TRUE] }

\* onKeyDown of the question box
HandleKeyPress(e) ==
  /\ Quiescent
  /\ IF e.key = "Enter" /\ e.modifier THEN HandleAsk ELSE UNCHANGED vars

(***************************************************************************)
(* handleAsk after the fetch: catch and finally.                           *)
(***************************************************************************)
ErrorMessages == {"Failed to fetch", ""}

ThrowKeepsStreaming(i, message) ==
  /\ error' = IF message # "" THEN message ELSE "An error occurred"
  /\ loading' = FALSE
  /\ pc' = [pc EXCEPT ![i] = "threw"]
  /\ UNCHANGED <<managerVars, saveVars, question, databaseId, result, streamingReasoning,
                 currentStep, isStreaming, scripts, nAsks, req, pos, pending,
                 buffer, currentEvent, lines, log>>

\* catch (err) { ... } finally { setLoading(false) }
Throw(i, message) ==
  /\ error' = IF message # "" THEN message ELSE "An error occurred"
  /\ isStreaming' = FALSE
  /\ loading' = FALSE
  /\ pc' = [pc EXCEPT ![i] = "threw"]
  /\ UNCHANGED <<managerVars, saveVars, question, databaseId, result, streamingReasoning, currentStep,
                 scripts, nAsks, req, pos, pending, buffer,
                 currentEvent, lines, log>>

HttpStatuses == {200, 500}

FetchResolve(i, status) ==
  /\ Quiescent
  /\ pc[i] = "fetch"
  /\ IF status >= 200 /\ status <= 299
     THEN /\ pc' = [pc EXCEPT ![i] = "read"]
          /\ buffer' = [buffer EXCEPT ![i] = <<>>]
          /\ currentEvent' = [currentEvent EXCEPT ![i] = nullText]
          /\ pending' = [pending EXCEPT ![i] = <<>>]
          /\ UNCHANGED <<managerVars, saveVars, question, databaseId, view, scripts, nAsks,
                         req, pos, lines, log>>
     ELSE Throw(i, "HTTP error! status: " \o ToString(status))

FetchReject(i, message) ==
  /\ Quiescent
  /\ pc[i] = "fetch"
  /\ Throw(i, message)

\* reader.read() resolves with the next k bytes of the response
ReadChunk(i, k) ==
  /\ Quiescent
  /\ pc[i] = "read"
  /\ k \in 1..(Len(scripts[i]) - pos[i])
  /\ LET value == SubSeq(scripts[i], pos[i] + 1, pos[i] + k)
         dec == Decode(pending[i], value)
         segments == Split(buffer[i] \o dec.chars)
     IN  /\ pos' = [pos EXCEPT ![i] = @ + k]
         /\ pending' = [pending EXCEPT ![i] = dec.pend]
         /\ buffer' = [buffer EXCEPT ![i] = Residue(segments)]
         /\ lines' = [lines EXCEPT ![i] = CompleteLines(segments)]
         /\ pc' = [pc EXCEPT ![i] =
                     IF CompleteLines(segments) = <<>> THEN "read" ELSE "lines"]
  /\ UNCHANGED <<managerVars, saveVars, question, databaseId, view, scripts, nAsks, req,
                 currentEvent, log>>

\* one iteration of the for loop over the lines of the chunk
ProcessLine(i) ==
  /\ pc[i] = "lines"
  /\ LET line == Head(lines[i]) IN
     /\ SetState(LineEffect(State, line))
     /\ currentEvent' = [currentEvent EXCEPT ![i] = LineEvent(line, @)]
     /\ log' = [log EXCEPT ![i] =
                  Append(@, [line |-> line, kind |-> LineKind(line)])]
     /\ lines' = [lines EXCEPT ![i] = Tail(@)]
     /\ pc' = [pc EXCEPT ![i] = IF Tail(lines[i]) = <<>> THEN "read" ELSE "lines"]
  /\ UNCHANGED <<managerVars, saveVars, question, databaseId, scripts, nAsks, req, pos, pending,
                 buffer>>

ReadDoneKeepsLoading(i) ==
  /\ Quiescent
  /\ pc[i] = "read"
  /\ pos[i] = Len(scripts[i])
  /\ pc' = [pc EXCEPT ![i] = "closed"]
  /\ UNCHANGED <<managerVars, saveVars, question, databaseId, view, scripts, nAsks, req,
                 pos, pending, buffer, currentEvent, lines, log>>

\* reader.read() resolves with done: break, then finally
ReadDone(i) ==
  /\ Quiescent
  /\ pc[i] = "read"
  /\ pos[i] = Len(scripts[i])
  /\ loading' = FALSE
  /\ pc' = [pc EXCEPT ![i] = "closed"]
  /\ UNCHANGED <<managerVars, saveVars, question, databaseId, result, error, streamingReasoning,
                 currentStep, isStreaming, scripts, nAsks, req, pos,
                 pending, buffer, currentEvent, lines, log>>

\* reader.read() rejects: the connection dropped
ReadReject(i, message) ==
  /\ Quiescent
  /\ pc[i] = "read"
  /\ Throw(i, message)

(***************************************************************************)
(* saveToKnowledgeBase and the Save button.                                *)
(***************************************************************************)
\* the handler goes on to the request: the negation of
\* !result || !result.sql || !result.question
SavePreconditionSqlOnly(r) == r # nullObj /\ Truthy(r, "sql")
SavePrecondition(r) ==
  r # nullObj /\ Truthy(r, "sql") /\ Truthy(r, "question")

\* the button is drawn: the results block, result?.sql and
\* result?.execution_result?.success
SaveButtonShown ==
  /\ (result # nullObj \/ isStreaming)
  /\ result # nullObj
  /\ Truthy(result, "sql")
  /\ Has(result, "execution_result")
  /\ Truthy(result["execution_result"], "success")

\* the path and the body axios.post is called with
SaveRequest ==
  [path_database |-> databaseId,
   database_id |-> databaseId,
   question |-> Field(result, "question"),
   sql |-> Field(result, "sql"),
   description |-> IF Truthy(result, "sql_explanation")
                   THEN result["sql_explanation"] ELSE null]

\* saveToKnowledgeBase up to its await
SaveToKnowledgeBase ==
  IF ~SavePrecondition(result)
  THEN UNCHANGED vars
  ELSE /\ Len(kbPosts) < MaxSaves
       /\ savingToKB' = TRUE
       /\ kbMessage' = nullObj
       /\ kbPosts' = Append(kbPosts, SaveRequest)
       /\ savePc' = "post"
       /\ UNCHANGED <<managerVars, question, databaseId, view, scripts, nAsks, perCall,
                      kbTimers>>

\* the Save button: disabled={savingToKB}
ClickSave ==
  /\ Quiescent
  /\ SaveButtonShown
  /\ ~savingToKB
  /\ SaveToKnowledgeBase

\* axios.post resolves: the success notice, the timer, then finally
SaveResolve ==
  /\ Quiescent
  /\ savePc = "post"
  /\ kbMessage' = [type |-> "success", text |-> "Saved to Knowledge Base!"]
  /\ kbTimers' = kbTimers + 1
  /\ savingToKB' = FALSE
  /\ savePc' = "idle"
  /\ UNCHANGED <<managerVars, question, databaseId, view, scripts, nAsks, perCall, kbPosts>>

SaveErrors == {"Network Error"}

SaveRejectSetsError(message) ==
  /\ Quiescent
  /\ savePc = "post"
  /\ kbMessage' = [type |-> "error", text |-> "Failed to save: " \o message]
  /\ error' = message
  /\ savingToKB' = FALSE
  /\ savePc' = "idle"
  /\ UNCHANGED <<managerVars, question, databaseId, loading, result, streamingReasoning,
                 currentStep, isStreaming, scripts, nAsks, perCall, kbPosts,
                 kbTimers>>

\* axios.post rejects: catch, then finally
SaveReject(message) ==
  /\ Quiescent
  /\ savePc = "post"
  /\ kbMessage' = [type |-> "error", text |-> "Failed to save: " \o message]
  /\ savingToKB' = FALSE
  /\ savePc' = "idle"
  /\ UNCHANGED <<managerVars, question, databaseId, view, scripts, nAsks, perCall, kbPosts,
                 kbTimers>>

\* the callback of setTimeout(() => setKbMessage(null), 3000)
KbMessageTimeout ==
  /\ Quiescent
  /\ kbTimers > 0
  /\ kbTimers' = kbTimers - 1
  /\ kbMessage' = nullObj
  /\ UNCHANGED <<managerVars, question, databaseId, view, scripts, nAsks, perCall,
                 savingToKB, savePc, kbPosts>>

Next ==
  \/ \E q \in Questions : SetQuestion(q)
  \/ \E d \in DatabaseIds : SetDatabaseId(d)
  \/ ClickAsk
  \/ \E e \in KeyEvents : HandleKeyPress(e)
  \/ \E i \in Calls, status \in HttpStatuses : FetchResolve(i, status)
  \/ \E i \in Calls, m \in ErrorMessages : FetchReject(i, m)
  \/ \E i \in Calls : \E k \in 1..Len(scripts[i]) : ReadChunk(i, k)
  \/ \E i \in Calls : ProcessLine(i)
  \/ \E i \in Calls : ReadDone(i)
  \/ \E i \in Calls, m \in ErrorMessages : ReadReject(i, m)

NextSave ==
  \/ Next
  \/ ClickSave
  \/ SaveResolve
  \/ \E m \in SaveErrors : SaveReject(m)
  \/ KbMessageTimeout

(***************************************************************************)
(* The responses of the backend.                                           *)
(***************************************************************************)
\* UTF-8 encoding of a text
RECURSIVE Encode(_)
Encode(t) ==
  IF t = <<>> THEN <<>>
  ELSE (IF Head(t) = "eacute" THEN <<Lead, Trail>> ELSE <<Head(t)>>)
         \o Encode(Tail(t))

\* data:{...} followed by the blank line that ends the block; "malformed"
\* is a block whose payload lost its closing brace
FrameKinds == (Bodies \ MixedBodies) \cup {"malformed"}

Frame(f) ==
  IF f = "malformed" THEN DataMarker \o <<"{", "sql", "NL", "NL">>
  ELSE DataMarker \o <<"{">> \o BodyText(f) \o <<"}", "NL", "NL">>

RECURSIVE Wire(_)
Wire(fs) == IF fs = <<>> THEN <<>> ELSE Frame(Head(fs)) \o Wire(Tail(fs))

SeqsUpTo(S, n) == UNION { [1..m -> S] : m \in 0..n }

FrameScripts(S, n) == { Encode(Wire(fs)) : fs \in SeqsUpTo(S, n) }

\* one ask-operation, every response of at most MaxFrames frames
Init ==
  /\ scripts \in { <<s>> : s \in FrameScripts(FrameKinds, MaxFrames) }
  /\ InitComponent

Spec == Init /\ [][Next]_vars

\* the lines a response is made of in the decoder specification: a blank
\* line, an event line, data lines (one with white space and a two-byte
\* character), a data line that is not JSON
WireLines ==
  { <<>>,
    EventMarker \o <<"nm">>,
    DataMarker \o <<"{", "sql", "}">>,
    DataMarker \o <<"SP", "{", "answer", "eacute", "}">>,
    DataMarker \o <<"{", "final", "}">>,
    DataMarker \o <<"{", "sql">> }

\* what may follow the last line feed of a response
WireTails == { <<>>, DataMarker \o <<"{", "chunkA", "}">> }

RECURSIVE JoinLines(_)
JoinLines(ls) ==
  IF ls = <<>> THEN <<>> ELSE Head(ls) \o <<"NL">> \o JoinLines(Tail(ls))

LineScripts ==
  { Encode(JoinLines(ls) \o tail) :
      ls \in SeqsUpTo(WireLines, MaxLines), tail \in WireTails }

\* one ask-operation, every response of at most MaxLines lines
InitDecode ==
  /\ scripts \in { <<s>> : s \in LineScripts }
  /\ InitComponent

SpecDecode == InitDecode /\ [][Next]_vars

\* the scenario "step, sql, row count, final frame with the answer" and the
\* responses that leave some of its frames out
Scenario == <<"step", "sql", "rows", "finalAnswer">>

RECURSIVE SubSequences(_)
SubSequences(fs) ==
  IF fs = <<>> THEN {<<>>}
  ELSE LET rest == SubSequences(Tail(fs))
       IN  rest \cup { <<Head(fs)>> \o r : r \in rest }

InitScenario ==
  /\ scripts \in { <<Encode(Wire(fs))>> : fs \in SubSequences(Scenario) }
  /\ InitComponent

SpecScenario == InitScenario /\ [][Next]_vars

\* two ask-operations, each answered with at most MaxOverlapFrames frames
OverlapKinds == {"step", "chunkA", "sql", "error", "final"}

InitOverlap ==
  /\ scripts \in { <<s, t>> : s, t \in FrameScripts(OverlapKinds, MaxOverlapFrames) }
  /\ InitComponent

SpecOverlap == InitOverlap /\ [][Next]_vars

(***************************************************************************)
(* What the page shows, as the session status of the design.  The         *)
(* streaming indicator is on: Streaming.  It is off and an error of the    *)
(* operation is set (from an error frame or from catch): Failed.  It is    *)
(* off, no such error is set and there is a result: Succeeded.  Otherwise  *)
(* Idle.  The message of a rejected start is not an error of an operation: *)
(* the start returned before opening one.                                  *)
(***************************************************************************)
StatusOf(st) ==
  IF st.isStreaming THEN "Streaming"
  ELSE IF st.error \notin {null, ValidationMessage} THEN "Failed"
  ELSE IF st.result # nullObj THEN "Succeeded"
  ELSE "Idle"

Status == StatusOf(State)

\* result?.execution_result?.success === false
ExecutionFailedIn(r) ==
  /\ r # nullObj
  /\ Has(r, "execution_result")
  /\ Has(r["execution_result"], "success")
  /\ ~r["execution_result"]["success"]

Kinds(i) == [n \in 1..Len(log[i]) |-> log[i][n].kind]

LastKind(i) == IF log[i] = <<>> THEN "None" ELSE log[i][Len(log[i])].kind

\* the payload of a logged data line
Payload(entry) == JSONParse(Trim(Substring(entry.line, DataMarker))).obj

\* this step is an iteration of call i's for loop
Iterates(i) == log'[i] # log[i]

\* this step is an iteration of call i's for loop that applied `kind`
Applies(i, kind) == Iterates(i) /\ LastKind(i)' = kind

RECURSIVE FoldLines(_, _)
FoldLines(st, ls) ==
  IF ls = <<>> THEN st ELSE FoldLines(LineEffect(st, Head(ls)), Tail(ls))

\* the React state right after the setters that open an ask-operation
Started ==
  [loading |-> TRUE, result |-> nullObj, error |-> null,
   streamingReasoning |-> "", currentStep |-> "", isStreaming |-> TRUE]

\* the subset of the frames that build up the record or replace it
RecordKinds ==
  {"sql", "fixOnly", "explain", "rowsFixed", "final", "finalFull"}

InitRecord ==
  /\ scripts \in { <<s>> : s \in FrameScripts(RecordKinds, MaxFrames) }
  /\ InitComponent

SpecRecord == InitRecord /\ [][Next]_vars

recordView == <<result, streamingReasoning, currentStep, error, isStreaming>>

\* the frames after which the Save button can be drawn, and an error frame
SaveKinds == {"sql", "explain", "finalFull", "error"}

InitSave ==
  /\ scripts \in { <<s>> : s \in FrameScripts(SaveKinds, MaxFrames) }
  /\ InitComponent

SpecSave == InitSave /\ [][NextSave]_vars

\* error frames, alone and with another field, and final snapshots of a
\* failed and of a successful execution
MixedKinds == {"error", "errorRows", "errorSql", "finalFailed", "finalFull"}

InitMixed ==
  /\ scripts \in { <<s>> : s \in FrameScripts(MixedKinds, MaxFrames) }
  /\ InitComponent

SpecMixed == InitMixed /\ [][Next]_vars

\* two ask-operations one after the other: what the first leaves behind,
\* and a second that is answered with an empty response
RestartKinds == {"stepMsg", "chunkA", "sql", "error", "finalFull"}

InitRestart ==
  /\ scripts \in { <<s, <<>>>> : s \in FrameScripts(RestartKinds, MaxOverlapFrames) }
  /\ InitComponent

SpecRestart == InitRestart /\ [][Next]_vars

\* blocks of several data lines: a payload cut after its first token, the
\* closing brace on a line of its own, a whole payload, the blank line
BlockLines ==
  { <<>>,
    DataMarker \o <<"{", "sql">>,
    DataMarker \o <<"}">>,
    DataMarker \o <<"{", "explain", "}">> }

InitBlocks ==
  /\ scripts \in { <<Encode(JoinLines(ls))>> : ls \in SeqsUpTo(BlockLines, MaxBlockLines) }
  /\ InitComponent

SpecBlocks == InitBlocks /\ [][Next]_vars

\* step narration, the frames that clear it, and a notice that carries
\* nothing the dispatch looks for
NarrationKinds == {"stepMsg", "explain", "answer", "final", "msgInfo"}

InitNarration ==
  /\ scripts \in { <<s>> : s \in FrameScripts(NarrationKinds, MaxFrames) }
  /\ InitComponent

SpecNarration == InitNarration /\ [][Next]_vars

\* blocks with and without an event line, under two event names
EventLines ==
  { <<>>,
    EventMarker \o <<"nm">>,
    EventMarker \o <<"SP", "nx">>,
    DataMarker \o <<"{", "stepMsg", "}">>,
    DataMarker \o <<"{", "final", "}">> }

InitEvents ==
  /\ scripts \in { <<Encode(JoinLines(ls))>> : ls \in SeqsUpTo(EventLines, MaxEventLines) }
  /\ InitComponent

SpecEvents == InitEvents /\ [][Next]_vars

\* the frames that carry reasoning text
ReasoningKinds == {"chunkA", "chunkB", "reasoning"}

InitReasoning ==
  /\ scripts \in { <<s>> : s \in FrameScripts(ReasoningKinds, MaxReasoningFrames) }
  /\ InitComponent

SpecReasoning == InitReasoning /\ [][Next]_vars

(***************************************************************************)
(* C1.  However the bytes of a response are cut into chunks, the lines the *)
(* loop iterates over are the lines of the bytes read so far delivered as  *)
(* one chunk, and when the response is closed the record is the one that   *)
(* single chunk gives.                                                     *)
(***************************************************************************)
C1_ChunkingIndependent ==
  \A i \in Calls :
    pc[i] \in {"read", "lines", "closed"} =>
      LET chars == Decode(<<>>, SubSeq(scripts[i], 1, pos[i])).chars
          whole == CompleteLines(Split(chars))
          iterated == [n \in 1..Len(log[i]) |-> log[i][n].line]
          final == FoldLines(Started, whole)
      IN  /\ iterated \o lines[i] = whole
          /\ pc[i] = "closed" =>
               /\ result = final.result
               /\ streamingReasoning = final.streamingReasoning
               /\ currentStep = final.currentStep
               /\ isStreaming = final.isStreaming
               /\ error \in {final.error, ValidationMessage}

\* a chunk ended inside a line and inside a two-byte character, after
\* earlier lines had been iterated over
C1_Witness ==
  \E i \in Calls :
    /\ pc[i] = "read"
    /\ pending[i] = <<Lead>>
    /\ buffer[i] # <<>>
    /\ log[i] # <<>>

(***************************************************************************)
(* C2.  A response that is closed without a terminal update having been    *)
(* applied leaves the status Failed.                                       *)
(***************************************************************************)
C2_TruncatedStreamFails ==
  \A i \in Calls :
    (pc[i] = "closed" /\ \A n \in 1..Len(log[i]) : log[i][n].kind \notin TerminalKinds)
      => Status = "Failed"

(***************************************************************************)
(* C3.  An error frame makes the status Failed with execution.success      *)
(* false, and every later frame of the same response changes nothing.      *)
(***************************************************************************)
ErrorKinds == {"ExecutionFailed", "GenericError"}

C3_ErrorFrameEndsOperation ==
  [][\A i \in Calls :
       /\ (Iterates(i) /\ LastKind(i)' \in ErrorKinds)
            => (Status' = "Failed" /\ ExecutionFailedIn(result'))
       /\ (Iterates(i) /\ \E n \in 1..Len(log[i]) : log[i][n].kind \in ErrorKinds)
            => UNCHANGED recordView]_vars

(***************************************************************************)
(* C4.  After a sql frame and a frame with attempts and sql, the record    *)
(* has the second sql, metadata.auto_fixed and metadata.fix_attempts, the  *)
(* second frame having been taken as SqlCorrected.                         *)
(***************************************************************************)
C4_CorrectedSqlScenario ==
  (scripts[1] = Encode(Wire(<<"sql", "fix">>)) /\ pc[1] = "closed") =>
    /\ Kinds(1) = <<"SqlProduced", "Blank", "SqlCorrected", "Blank">>
    /\ result # nullObj
    /\ Field(result, "sql") = "SELECT 1 FIX"
    /\ MetadataOf(result) = [auto_fixed |-> TRUE, fix_attempts |-> 2]

(***************************************************************************)
(* C5.  After a step frame, a sql frame, a row-count frame and a final     *)
(* frame with query id and answer, the record has sql, a successful        *)
(* execution with the row count, the answer and the query id, and the      *)
(* status is Succeeded.                                                    *)
(***************************************************************************)
C5_FullScenario ==
  (scripts[1] = Encode(Wire(Scenario)) /\ pc[1] = "closed") =>
    /\ result # nullObj
    /\ Field(result, "sql") = "SELECT 1"
    /\ Has(result, "execution_result")
    /\ result["execution_result"] = [success |-> TRUE, row_count |-> 10]
    /\ Field(result, "natural_language_answer") = "N"
    /\ Field(result, "query_id") = "q-1"
    /\ Status = "Succeeded"

(***************************************************************************)
(* C6.  A parsed payload that carries a query id is taken as FinalResult   *)
(* whatever else it carries.                                               *)
(***************************************************************************)
NotPayloadKinds == {"Blank", "Event", "Ignored", "ParseError"}

C6_QueryIdMeansFinalResult ==
  \A i \in Calls : \A n \in 1..Len(log[i]) :
    (log[i][n].kind \notin NotPayloadKinds /\ Has(Payload(log[i][n]), "query_id"))
      => log[i][n].kind = "FinalResult"

(***************************************************************************)
(* C7.  Applying a FinalResult update gives the status Succeeded, with the *)
(* streaming indicator off, whatever the state before.                     *)
(***************************************************************************)
C7_FinalResultSucceeds ==
  [][\A i \in Calls :
       Applies(i, "FinalResult") => (Status' = "Succeeded" /\ ~isStreaming')]_vars

StepsOf(i) ==
  /\ pc[i] # "idle"
  /\ (pc'[i] # pc[i] \/ log'[i] # log[i] \/ pos'[i] # pos[i])

C9_StatusOnlyForward ==
  [][\A i \in Calls :
       (StepsOf(i) /\ Status \in {"Succeeded", "Failed"}) => Status' = Status]_vars

(***************************************************************************)
(* C10.  After a later handleAsk has started, no frame read from an        *)
(* earlier operation's response changes the record, the reasoning, the     *)
(* current step, the error or the streaming indicator.                     *)
(***************************************************************************)
C10_NoWriteAcrossOperations ==
  [][\A i \in Calls :
       (Iterates(i) /\ nAsks > i) => UNCHANGED recordView]_vars

(***************************************************************************)
(* C11.  At most one handleAsk read loop is active at any time, whatever   *)
(* the interleaving of clicks, Ctrl+Enter key presses and frame arrivals.  *)
(***************************************************************************)
\* the call has a response open: it is awaiting reader.read() or working
\* through the lines of a chunk
ReadLoopActive(i) == pc[i] \in {"read", "lines"}

C11_AtMostOneReadLoop ==
  Cardinality({ i \in Calls : ReadLoopActive(i) }) <= 1

(***************************************************************************)
(* C12.  Of a populated result, the streaming indicator and an error       *)
(* message the page never shows two together, and once an ask-operation    *)
(* has been started it shows one of them; in particular no error message   *)
(* is shown together with a result left over from before the error.        *)
(***************************************************************************)
\* {error && ...}
ErrorShown == error # null
\* the results block is drawn for a stream in progress
StreamingShown == isStreaming
\* the results block is drawn for a result and no stream is in progress
ResultShown == ~isStreaming /\ result # nullObj

ShownCount ==
  (IF ErrorShown THEN 1 ELSE 0) + (IF StreamingShown THEN 1 ELSE 0)
    + (IF ResultShown THEN 1 ELSE 0)

C12_ExactlyOneShown ==
  Quiescent => (ShownCount <= 1 /\ (nAsks > 0 => ShownCount = 1))

(***************************************************************************)
(* C13.  In every state where the status is Streaming the precondition of  *)
(* saveToKnowledgeBase fails, so a call made there returns before          *)
(* axios.post; and no step that issues a request starts from such a state. *)
(***************************************************************************)
C13_NoSaveWhileStreaming ==
  /\ [](Status = "Streaming" => ~SavePrecondition(result))
  /\ [][kbPosts' # kbPosts => Status # "Streaming"]_vars

\* a stream is in progress and its record already has an sql: of the three
\* tests of the precondition only the one on question still fails
C13_Witness ==
  /\ Status = "Streaming"
  /\ result # nullObj
  /\ Truthy(result, "sql")

(***************************************************************************)
(* C14.  Every request saveToKnowledgeBase issues is issued in a state     *)
(* whose status is Succeeded and whose record has sql and question.        *)
(***************************************************************************)
C14_SaveOnlyWhenSucceeded ==
  [][kbPosts' # kbPosts =>
       /\ Status = "Succeeded"
       /\ Truthy(result, "sql")
       /\ Truthy(result, "question")]_vars

(***************************************************************************)
(* C15.  handleAsk called with a question that is empty or white space     *)
(* only, or with an empty database id, sets the validation message and     *)
(* opens no request: no call is started and no request body recorded; and  *)
(* every request that was opened carries a question and a database id.     *)
(***************************************************************************)
\* nothing but white space
Blank(s) == \A n \in 1..Len(s) : SubSeq(s, n, n) = " "

\* this step is a call of handleAsk, from the button or from the keyboard
AskCalled == ClickAsk \/ HandleKeyPress([key |-> "Enter", modifier |-> TRUE])

C15_ValidationOpensNothing ==
  /\ [](\A i \in Calls :
          pc[i] # "idle" =>
            (~Blank(req[i].question) /\ ~Blank(req[i].database_id)))
  /\ [][(AskCalled /\ (Blank(question) \/ Blank(databaseId))) =>
          /\ error' = ValidationMessage
          /\ UNCHANGED <<nAsks, pc, req, loading, isStreaming>>]_vars

\* handleAsk has been called with a question of white space only and a
\* database selected
C15_Witness ==
  /\ error = ValidationMessage
  /\ question = " "
  /\ databaseId = "db1"
  /\ nAsks = 0

(***************************************************************************)
(* C16.  A data line whose payload does not parse changes neither the      *)
(* record nor the status nor the error, and the lines after it are         *)
(* iterated over and applied as if it had not been there: whenever the     *)
(* loop is between chunks or the response is closed, the page shows what   *)
(* the iterated lines without the unparseable ones give.                   *)
(***************************************************************************)
Parseable(entry) == entry.kind # "ParseError"

LinesOf(entries) == [n \in 1..Len(entries) |-> entries[n].line]

C16_MalformedFrameDropped ==
  /\ [][\A i \in Calls :
          Applies(i, "ParseError") =>
            (UNCHANGED <<view, currentEvent>> /\ Status' = Status)]_vars
  /\ [](\A i \in Calls :
          (pc[i] \in {"read", "closed"} /\ nAsks = i) =>
            LET without == FoldLines(Started, LinesOf(SelectSeq(log[i], Parseable)))
            IN  /\ result = without.result
                /\ streamingReasoning = without.streamingReasoning
                /\ currentStep = without.currentStep
                /\ isStreaming = without.isStreaming
                /\ error \in {without.error, ValidationMessage})

\* an unparseable data line has been iterated over and a later data line
\* of the same response has been applied to the record
C16_Witness ==
  \E i \in Calls : \E n \in 1..Len(log[i]) :
    /\ log[i][n].kind = "ParseError"
    /\ \E m \in (n + 1)..Len(log[i]) : log[i][m].kind = "SqlProduced"
    /\ result # nullObj
    /\ Truthy(result, "sql")

(***************************************************************************)
(* C17.  When the fetch rejects, answers with a status that is not         *)
(* successful, or a read rejects, and no terminal update had been applied  *)
(* by the call, the status becomes Failed, an error message is set and the *)
(* streaming indicator and the loading flag are off.                       *)
(***************************************************************************)
TerminalApplied(i) ==
  \E n \in 1..Len(log[i]) : log[i][n].kind \in TerminalKinds

\* this step is call i entering catch
Throws(i) == pc[i] # "threw" /\ pc'[i] = "threw"

C17_TransportFailureFails ==
  [][\A i \in Calls :
       (Throws(i) /\ ~TerminalApplied(i)) =>
         /\ Status' = "Failed"
         /\ error' \notin {null, "", ValidationMessage}
         /\ ~isStreaming'
         /\ ~loading']_vars

\* a read was rejected after a frame that is not terminal had been applied
C17_Witness ==
  \E i \in Calls :
    /\ pc[i] = "threw"
    /\ ~TerminalApplied(i)
    /\ \E n \in 1..Len(log[i]) : log[i][n].kind = "SqlProduced"
    /\ Status = "Failed"

(***************************************************************************)
(* C18.  The reasoning text is the text of the last ReasoningFull applied  *)
(* (nothing if there was none) followed by the chunks applied after it, in *)
(* the order they arrived: chunk A then chunk B gives AB, and a later      *)
(* ReasoningFull C gives C.                                                *)
(***************************************************************************)
ReasoningEntry(entry) == entry.kind \in {"ReasoningChunk", "ReasoningFull"}

RECURSIVE ChunksOf(_)
ChunksOf(entries) ==
  IF entries = <<>> THEN ""
  ELSE Payload(Head(entries))["chunk"] \o ChunksOf(Tail(entries))

ExpectedReasoning(entries) ==
  LET fulls == { n \in 1..Len(entries) : entries[n].kind = "ReasoningFull" }
      last == IF fulls = {} THEN 0
              ELSE CHOOSE n \in fulls : \A m \in fulls : m <= n
  IN  (IF last = 0 THEN "" ELSE Payload(entries[last])["reasoning"])
        \o ChunksOf(SubSeq(entries, last + 1, Len(entries)))

C18_ReasoningAppendsThenReplaces ==
  \A i \in Calls :
    (nAsks = i /\ pc[i] \notin {"idle", "fetch"}) =>
      /\ streamingReasoning = ExpectedReasoning(SelectSeq(log[i], ReasoningEntry))
      /\ (Kinds(i) = <<"ReasoningChunk", "Blank", "ReasoningChunk", "Blank">>
            /\ scripts[i] = Encode(Wire(<<"chunkA", "chunkB">>)))
           => streamingReasoning = "AB"

\* chunk A, chunk B and then the full reasoning C have been applied
C18_Witness ==
  \E i \in Calls :
    /\ scripts[i] = Encode(Wire(<<"chunkA", "chunkB", "reasoning">>))
    /\ pc[i] = "closed"
    /\ streamingReasoning = "C"

(***************************************************************************)
(* C19.  A parsed payload that carries an error field and no query id is   *)
(* taken as a terminal error, whatever other fields it carries.            *)
(***************************************************************************)
C19_ErrorFieldMeansTerminalError ==
  \A i \in Calls : \A n \in 1..Len(log[i]) :
    (/\ log[i][n].kind \notin NotPayloadKinds
     /\ Has(Payload(log[i][n]), "error")
     /\ ~Has(Payload(log[i][n]), "query_id"))
      => log[i][n].kind \in ErrorKinds

(***************************************************************************)
(* C20.  Once the record of an ask-operation has execution.success false,  *)
(* no later step of that operation gives a record whose execution.success  *)
(* is true.                                                                *)
(***************************************************************************)
\* result?.execution_result?.success
ExecutionSucceededIn(r) ==
  /\ r # nullObj
  /\ Has(r, "execution_result")
  /\ Truthy(r["execution_result"], "success")

C20_FailedExecutionStaysFailed ==
  [][\A i \in Calls :
       (StepsOf(i) /\ nAsks = i /\ ExecutionFailedIn(result))
         => ~ExecutionSucceededIn(result')]_vars

(***************************************************************************)
(* C21.  After a FinalResult update has been applied, every field the      *)
(* snapshot carries has the snapshot's value in the record, whatever had   *)
(* been accumulated for that field before.                                 *)
(***************************************************************************)
C21_FinalResultSupersedes ==
  [][\A i \in Calls :
       Applies(i, "FinalResult") =>
         LET data == Payload(log'[i][Len(log'[i])])
         IN  \A k \in DOMAIN data : Has(result', k) /\ result'[k] = data[k]]_vars

\* a FinalResult carrying metadata has just been applied to a record whose
\* metadata had been accumulated from a correction frame
C21_Witness ==
  \E i \in Calls :
    /\ LastKind(i) = "FinalResult"
    /\ \E n \in 1..Len(log[i]) :
         log[i][n].kind \in {"SqlCorrected", "ExecutionOutcome"}
    /\ result # nullObj
    /\ MetadataOf(result) = [model |-> "m"]

(***************************************************************************)
(* C23.  No step of saveToKnowledgeBase, whether the request succeeds or   *)
(* fails, changes the result record, the error of the ask-operation, the   *)
(* streaming indicator, the loading flag or the status: it changes the     *)
(* save notice and the saving flag only.                                   *)
(***************************************************************************)
C23_SaveLeavesAskState ==
  [][saveVars' # saveVars =>
       (UNCHANGED <<view, question, databaseId, nAsks, perCall>>
          /\ Status' = Status)]_vars

\* a save has failed: its notice is shown next to the result it was asked
\* to save
C23_Witness ==
  /\ kbMessage # nullObj
  /\ kbMessage.type = "error"
  /\ ~savingToKB
  /\ Len(kbPosts) = 1
  /\ Status = "Succeeded"
  /\ result # nullObj

(***************************************************************************)
(* C24.  Right after a handleAsk that passed validation the status is      *)
(* Streaming and nothing of an earlier operation remains: the record is    *)
(* empty (no sql, explanation, answer, execution, metadata or query id),   *)
(* the reasoning and the current step are empty and no error is set.       *)
(***************************************************************************)
C24_StartIsFresh ==
  [][nAsks' = nAsks + 1 =>
       /\ Status' = "Streaming"
       /\ loading'
       /\ result' = nullObj
       /\ streamingReasoning' = ""
       /\ currentStep' = ""
       /\ error' = null]_vars

\* a second operation has just been started after a first one that had
\* put an sql in the record and has ended
C24_Witness ==
  /\ nAsks = 2
  /\ pc[2] = "fetch"
  /\ pc[1] \in {"closed", "threw"}
  /\ \E n \in 1..Len(log[1]) : log[1][n].kind = "SqlProduced"
  /\ result = nullObj
  /\ Status = "Streaming"

(***************************************************************************)
(* C25.  Once a FinalResult has been applied and the status is Succeeded,  *)
(* no later line of the same response changes the record, the error or     *)
(* the status.                                                             *)
(***************************************************************************)
FinalApplied(i) ==
  \E n \in 1..Len(log[i]) : log[i][n].kind = "FinalResult"

C25_RecordFinalAfterFinalResult ==
  [][\A i \in Calls :
       (Iterates(i) /\ nAsks = i /\ FinalApplied(i) /\ Status = "Succeeded")
         => (UNCHANGED <<result, error>> /\ Status' = Status)]_vars

(***************************************************************************)
(* C26.  When the response is closed, a block whose data line has been     *)
(* received but whose closing blank line has not is discarded: the record, *)
(* the reasoning, the error and the streaming indicator are what the       *)
(* lines up to the last blank line give.                                   *)
(***************************************************************************)
\* the iterated lines up to and including the last blank one
ClosedBlocks(entries) ==
  LET blanks == { n \in 1..Len(entries) : entries[n].kind = "Blank" }
      last == IF blanks = {} THEN 0
              ELSE CHOOSE n \in blanks : \A m \in blanks : m <= n
  IN  SubSeq(entries, 1, last)

C26_OpenFrameDiscardedAtEnd ==
  \A i \in Calls :
    (pc[i] = "closed" /\ nAsks = i) =>
      LET closed == FoldLines(Started, LinesOf(ClosedBlocks(log[i])))
      IN  /\ result = closed.result
          /\ streamingReasoning = closed.streamingReasoning
          /\ isStreaming = closed.isStreaming
          /\ error \in {closed.error, ValidationMessage}

(***************************************************************************)
(* C27.  A block of several data lines closed by a blank line is one       *)
(* frame: its payload is the remainders of the data lines put together,    *)
(* parsed and dispatched once.  So when a response whose last line is      *)
(* blank has been closed, the page shows what its blocks, taken that way,  *)
(* give.                                                                   *)
(***************************************************************************)
\* the effect of one frame whose payload is `text`
FrameEffect(st, text) ==
  LET p == JSONParse(Trim(text)) IN IF p.ok THEN Reduce(st, p.obj) ELSE st

\* block framing: data lines are collected in acc until the blank line
RECURSIVE FoldBlocks(_, _, _)
FoldBlocks(st, acc, ls) ==
  IF ls = <<>> THEN st
  ELSE LET line == Head(ls) IN
       IF Trim(line) = <<>>
       THEN FoldBlocks(IF acc = <<>> THEN st ELSE FrameEffect(st, acc),
                       <<>>, Tail(ls))
       ELSE IF StartsWith(line, DataMarker)
            THEN FoldBlocks(st, acc \o Trim(Substring(line, DataMarker)), Tail(ls))
       ELSE FoldBlocks(st, acc, Tail(ls))

C27_BlockIsOneFrame ==
  \A i \in Calls :
    (pc[i] = "closed" /\ nAsks = i /\ LastKind(i) = "Blank") =>
      LET framed == FoldBlocks(Started, <<>>, LinesOf(log[i]))
      IN  /\ result = framed.result
          /\ currentStep = framed.currentStep
          /\ isStreaming = framed.isStreaming
          /\ error \in {framed.error, ValidationMessage}

(***************************************************************************)
(* C28.  Applying an ExecutionOutcome update gives the record an execution *)
(* with success true, the row count and the elapsed time of the frame;     *)
(* when the frame carries auto_fixed it also gives metadata.auto_fixed     *)
(* true and metadata.fix_attempts.                                         *)
(***************************************************************************)
C28_ExecutionOutcomeRecorded ==
  [][\A i \in Calls :
       Applies(i, "ExecutionOutcome") =>
         LET data == Payload(log'[i][Len(log'[i])])
         IN  /\ result' # nullObj
             /\ Has(result', "execution_result")
             /\ ExecutionSucceededIn(result')
             /\ Field(result'["execution_result"], "row_count") = data["row_count"]
             /\ Field(result'["execution_result"], "execution_time_ms")
                  = Field(data, "execution_time_ms")
             /\ Truthy(data, "auto_fixed") =>
                  MetadataOf(result') =
                    [auto_fixed |-> TRUE, fix_attempts |-> data["fix_attempts"]]]_vars

(***************************************************************************)
(* C29.  No text is parsed or dispatched before its line feed has been     *)
(* read: the lines iterated over and waiting to be are exactly as many as  *)
(* the line feeds read so far, the text after the last line feed is held   *)
(* in the buffer, and a chunk that brings no line feed changes nothing     *)
(* that is shown.                                                          *)
(***************************************************************************)
\* the characters of the first n bytes of call i's response
CharsUpTo(i, n) == Decode(<<>>, SubSeq(scripts[i], 1, n)).chars

\* the characters of the bytes call i has read so far
CharsRead(i) == CharsUpTo(i, pos[i])

LineFeeds(t) == Cardinality({ n \in 1..Len(t) : t[n] = "NL" })

\* the text after the last line feed
RECURSIVE AfterLastLineFeed(_)
AfterLastLineFeed(t) ==
  IF t = <<>> \/ t[Len(t)] = "NL" THEN <<>>
  ELSE Append(AfterLastLineFeed(SubSeq(t, 1, Len(t) - 1)), t[Len(t)])

C29_NoLineBeforeItsTerminator ==
  /\ [](\A i \in Calls :
          pc[i] \in {"read", "lines", "closed"} =>
            /\ Len(log[i]) + Len(lines[i]) = LineFeeds(CharsRead(i))
            /\ buffer[i] = AfterLastLineFeed(CharsRead(i)))
  /\ [][\A i \in Calls :
          (/\ pos'[i] # pos[i]
           /\ LineFeeds(SubSeq(scripts[i], pos[i] + 1, pos'[i])) = 0)
            => UNCHANGED <<view, log, lines>>]_vars

\* a whole data line has been read but not its line feed: it is held in
\* the buffer and the record is still empty
C29_Witness ==
  \E i \in Calls :
    /\ pc[i] = "read"
    /\ pos[i] < Len(scripts[i])
    /\ buffer[i] = DataMarker \o <<"{", "sql", "}">>
    /\ log[i] = <<>>
    /\ result = nullObj

(***************************************************************************)
(* C30.  However the response is cut into chunks, the lines iterated over  *)
(* are an initial part of the lines of the whole response, each once and   *)
(* in their order, and the reasoning shown is what applying each of them   *)
(* once, in that order, gives.                                             *)
(***************************************************************************)
\* the complete lines of the whole response of call i
ResponseLines(i) == CompleteLines(Split(CharsUpTo(i, Len(scripts[i]))))

C30_OnceAndInOrder ==
  \A i \in Calls :
    (nAsks = i /\ pc[i] # "idle") =>
      LET seen == LinesOf(log[i]) \o lines[i]
      IN  /\ Len(seen) <= Len(ResponseLines(i))
          /\ seen = SubSeq(ResponseLines(i), 1, Len(seen))
          /\ streamingReasoning
               = FoldLines(Started, LinesOf(log[i])).streamingReasoning

\* chunk A, chunk B and chunk A again have each been applied once
C30_Witness ==
  \E i \in Calls :
    /\ scripts[i] = Encode(Wire(<<"chunkA", "chunkB", "chunkA">>))
    /\ pc[i] = "closed"
    /\ streamingReasoning = "ABA"

(***************************************************************************)
(* C31.  A parsed payload that has none of the fields the dispatch looks   *)
(* for, and no message that contains "error", is dropped: the record, the  *)
(* reasoning, the current step, the error, the flags and the status are    *)
(* what they were.                                                         *)
(***************************************************************************)
DistinguishingFields ==
  {"step", "chunk", "reasoning", "sql", "attempts", "explanation",
   "natural_language_answer", "row_count", "error", "query_id"}

Undistinguished(data) ==
  /\ \A k \in DistinguishingFields : ~Has(data, k)
  /\ ~(Has(data, "message") /\ Includes(data["message"], "error"))

C31_UndistinguishedPayloadDropped ==
  [][\A i \in Calls :
       (/\ Iterates(i)
        /\ LastKind(i)' \notin NotPayloadKinds
        /\ Undistinguished(Payload(log'[i][Len(log'[i])])))
         => (UNCHANGED view /\ Status' = Status)]_vars

\* a notice without any of the fields has been iterated over after a step
\* frame, whose narration is still shown
C31_Witness ==
  \E i \in Calls :
    /\ LastKind(i) = "Dropped"
    /\ \E n \in 1..Len(log[i]) : log[i][n].kind = "StepNotice"
    /\ currentStep = "Generating SQL"
    /\ Status = "Streaming"

(***************************************************************************)
(* C32.  Right after an ExplanationProduced, an AnswerProduced or a        *)
(* FinalResult update has been applied the current step is empty,          *)
(* whatever step text was shown before.                                    *)
(***************************************************************************)
StepClearingKinds == {"ExplanationProduced", "AnswerProduced", "FinalResult"}

C32_StepClearedByRecordUpdates ==
  [][\A i \in Calls :
       (Iterates(i) /\ LastKind(i)' \in StepClearingKinds) => currentStep' = ""]_vars

\* an explanation has just been applied after a step frame had put its
\* narration on the page
C32_Witness ==
  \E i \in Calls :
    /\ Kinds(i) = <<"StepNotice", "Blank", "ExplanationProduced">>
    /\ currentStep = ""
    /\ result # nullObj
    /\ Truthy(result, "sql_explanation")

(***************************************************************************)
(* C33.  The request saveToKnowledgeBase issues carries, in its path and   *)
(* in its body, the database id the ask-operation that produced the saved  *)
(* record was started with, also when the selection has been changed       *)
(* since.                                                                  *)
(***************************************************************************)
C33_SaveUsesOperationDatabase ==
  [][kbPosts' # kbPosts =>
       LET post == kbPosts'[Len(kbPosts')]
       IN  /\ post.database_id = req[nAsks].database_id
           /\ post.path_database = req[nAsks].database_id]_vars

(***************************************************************************)
(* C34.  While the read loop of any ask-operation is active the loading    *)
(* flag is true.                                                           *)
(***************************************************************************)
C34_LoadingWhileReading ==
  (\E i \in Calls : ReadLoopActive(i)) => loading

(***************************************************************************)
(* C35.  A SqlProduced, SqlCorrected, ExplanationProduced, AnswerProduced  *)
(* or ExecutionOutcome update changes only its own fields of the record:   *)
(* every other field the record had keeps its value, and so does every     *)
(* metadata entry other than auto_fixed and fix_attempts.                  *)
(***************************************************************************)
OwnFields(kind) ==
  CASE kind = "SqlProduced" -> {"sql"}
    [] kind = "SqlCorrected" -> {"sql", "metadata"}
    [] kind = "ExplanationProduced" -> {"sql_explanation"}
    [] kind = "AnswerProduced" -> {"natural_language_answer"}
    [] kind = "ExecutionOutcome" -> {"metadata"}

AccumulatingKinds ==
  {"SqlProduced", "SqlCorrected", "ExplanationProduced", "AnswerProduced",
   "ExecutionOutcome"}

FieldsOf(r) == IF r = nullObj THEN {} ELSE DOMAIN r

MetadataEntries(r) ==
  IF r # nullObj /\ Has(r, "metadata") THEN DOMAIN r["metadata"] ELSE {}

C35_UpdateTouchesOwnFieldsOnly ==
  [][\A i \in Calls :
       (Iterates(i) /\ LastKind(i)' \in AccumulatingKinds) =>
         /\ \A k \in FieldsOf(result) \ OwnFields(LastKind(i)') :
              k \in FieldsOf(result') /\ result'[k] = result[k]
         /\ \A m \in MetadataEntries(result) \ {"auto_fixed", "fix_attempts"} :
              /\ m \in MetadataEntries(result')
              /\ result'["metadata"][m] = result["metadata"][m]]_vars

\* an auto-fix has been recorded in a record that already had a query id
\* and a metadata entry of its own, and both are still there
C35_Witness ==
  \E i \in Calls :
    /\ LastKind(i) \in {"SqlCorrected", "ExecutionOutcome"}
    /\ result # nullObj
    /\ Field(result, "query_id") = "q-2"
    /\ MetadataEntries(result) = {"model", "auto_fixed", "fix_attempts"}
    /\ result["metadata"]["model"] = "m"

(***************************************************************************)
(* C36.  The event: lines of a response have no influence: at every step   *)
(* the updates applied, the record, the reasoning, the current step, the   *)
(* error, the flags and the status are those of the same lines with the    *)
(* event: lines left out, so two responses that differ only in their       *)
(* event: lines give the same at every step.                               *)
(***************************************************************************)
NotEvent(entry) == entry.kind # "Event"

\* the updates applied so far: the kinds of the iterated data lines
Updates(entries) ==
  LET data == SelectSeq(entries, LAMBDA e : e.kind \notin {"Blank", "Event", "Ignored"})
  IN  [n \in 1..Len(data) |-> data[n].kind]

\* the same, dispatched from the text of the lines
UpdatesOfLines(ls) ==
  LET ks == [n \in 1..Len(ls) |-> LineKind(ls[n])]
  IN  SelectSeq(ks, LAMBDA k : k \notin {"Blank", "Event", "Ignored"})

C36_EventNameHasNoInfluence ==
  \A i \in Calls :
    (nAsks = i /\ pc[i] \in {"read", "lines", "closed"}) =>
      LET stripped == LinesOf(SelectSeq(log[i], NotEvent))
          without == FoldLines(Started, stripped)
      IN  /\ result = without.result
          /\ streamingReasoning = without.streamingReasoning
          /\ currentStep = without.currentStep
          /\ isStreaming = without.isStreaming
          /\ error \in {without.error, ValidationMessage}
          /\ Updates(log[i]) = UpdatesOfLines(stripped)

\* a data line has been applied while an event name was current
C36_Witness ==
  \E i \in Calls :
    /\ Kinds(i) = <<"Event", "StepNotice">>
    /\ currentEvent[i] = <<"nx">>
    /\ currentStep = "Generating SQL"

(***************************************************************************)
(* C37.  Whenever a handleAsk call that passed validation comes to its     *)
(* end, because its response was closed or because the fetch or a read     *)
(* failed, the loading flag is false, whichever lines the response had     *)
(* carried.                                                                *)
(***************************************************************************)
Ended(i) == pc[i] \in {"closed", "threw"}

C37_CallEndsNotLoading ==
  [][\A i \in Calls : (~Ended(i) /\ Ended(i)') => ~loading']_vars

\* a call has ended on a closed response that carried an unparseable line
\* and no terminal frame
C37_Witness ==
  \E i \in Calls :
    /\ pc[i] = "closed"
    /\ \E n \in 1..Len(log[i]) : log[i][n].kind = "ParseError"
    /\ ~TerminalApplied(i)
    /\ ~loading


(***************************************************************************)
(* DatabaseManager (webui/src/components/DatabaseManager.jsx): the         *)
(* auto-index panel.  The user enters a database id, has the tables of a   *)
(* MySQL schema discovered, ticks the tables to index and posts the        *)
(* selection.  The MySQL credentials, the list of indexed databases and    *)
(* the delete and re-index handlers do not touch the table selection and   *)
(* are left out; a re-index in flight only keeps the two buttons of the    *)
(* panel disabled.                                                         *)
(***************************************************************************)
\* most tables a discovery answers with
MaxTables == 2

ManagerIds == {"", " ", "shop"}

TableNames == {"orders", "users", "items"}

\* the sequences of distinct elements of S of length n
RECURSIVE Arrangements(_, _)
Arrangements(S, n) ==
  IF n = 0 THEN { <<>> }
  ELSE UNION { { Append(a, x) : x \in S \ { a[k] : k \in DOMAIN a } }
               : a \in Arrangements(S, n - 1) }

\* response.data.tables of /api/v1/mysql/discover: the tables of one schema,
\* each under its own name
DiscoverResponses ==
  UNION { { [k \in DOMAIN a |-> [name |-> a[k]]] : a \in Arrangements(TableNames, n) }
          : n \in 0..MaxTables }

ManagerErrors == {"Access denied"}

\* the decimal numeral of a small count
NumeralOf(n) == CASE n = 0 -> "0" [] n = 1 -> "1" [] n = 2 -> "2" [] OTHER -> "3"

\* tables.map(t => t.name)
Names(tables) == [k \in DOMAIN tables |-> tables[k].name]

\* array.includes(x)
ArrayIncludes(array, x) == \E k \in DOMAIN array : array[k] = x

\* array.filter(t => t !== x)
RECURSIVE Without(_, _)
Without(array, x) ==
  IF array = <<>> THEN <<>>
  ELSE IF Head(array) = x THEN Without(Tail(array), x)
       ELSE <<Head(array)>> \o Without(Tail(array), x)

\* the state of QueryInterface, which DatabaseManager has no hand in
askVars == <<question, databaseId, view, scripts, nAsks, perCall, saveVars>>

\* the Auto-Index MySQL button: setShowAutoIndex(!showAutoIndex)
ToggleAutoIndexPanel ==
  /\ showAutoIndex' = ~showAutoIndex
  /\ UNCHANGED <<askVars, dmDatabaseId, dmLoading, dmMessage, showTableSelection,
                 discoveredTables, selectedTables, dmPc, autoIndexPost>>

\* the Database ID input of the panel
SetManagerDatabaseId(d) ==
  /\ showAutoIndex
  /\ dmDatabaseId' = d
  /\ UNCHANGED <<askVars, dmLoading, dmMessage, showAutoIndex, showTableSelection,
                 discoveredTables, selectedTables, dmPc, autoIndexPost>>

\* discoverTables up to its await
DiscoverTables ==
  IF TrimString(dmDatabaseId) = ""
  THEN /\ dmMessage' = [type |-> "error", text |-> "Please enter a Database ID"]
       /\ UNCHANGED <<askVars, dmDatabaseId, dmLoading, showAutoIndex,
                      showTableSelection, discoveredTables, selectedTables,
                      dmPc, autoIndexPost>>
  ELSE /\ dmLoading' = TRUE
       /\ dmMessage' = nullObj
       /\ dmPc' = "discover"
       /\ UNCHANGED <<askVars, dmDatabaseId, showAutoIndex, showTableSelection,
                      discoveredTables, selectedTables, autoIndexPost>>

\* the Discover Tables button: drawn in the panel while no table list is
\* shown, disabled={loading}
ClickDiscover ==
  /\ showAutoIndex
  /\ ~showTableSelection
  /\ ~dmLoading
  /\ DiscoverTables

\* axios.post resolves: every table selected, the list shown, then finally
DiscoverResolve(tables) ==
  /\ dmPc = "discover"
  /\ discoveredTables' = tables
  /\ selectedTables' = Names(tables)
  /\ showTableSelection' = TRUE
  /\ dmMessage' = [type |-> "success",
                   text |-> "Discovered " \o NumeralOf(Len(tables)) \o " tables"]
  /\ dmLoading' = FALSE
  /\ dmPc' = "idle"
  /\ UNCHANGED <<askVars, dmDatabaseId, showAutoIndex, autoIndexPost>>

\* axios.post rejects: catch, then finally
DiscoverReject(message) ==
  /\ dmPc = "discover"
  /\ dmMessage' = [type |-> "error", text |-> message]
  /\ dmLoading' = FALSE
  /\ dmPc' = "idle"
  /\ UNCHANGED <<askVars, dmDatabaseId, showAutoIndex, showTableSelection,
                 discoveredTables, selectedTables, autoIndexPost>>

ToggleTableSelectionAppends(tableName) ==
  /\ showTableSelection
  /\ ArrayIncludes(Names(discoveredTables), tableName)
  /\ selectedTables' = Append(selectedTables, tableName)
  /\ UNCHANGED <<askVars, dmDatabaseId, dmLoading, dmMessage, showAutoIndex,
                 showTableSelection, discoveredTables, dmPc, autoIndexPost>>

\* the checkbox of one discovered table
ToggleTableSelection(tableName) ==
  /\ showTableSelection
  /\ ArrayIncludes(Names(discoveredTables), tableName)
  /\ selectedTables' = IF ArrayIncludes(selectedTables, tableName)
                       THEN Without(selectedTables, tableName)
                       ELSE Append(selectedTables, tableName)
  /\ UNCHANGED <<askVars, dmDatabaseId, dmLoading, dmMessage, showAutoIndex,
                 showTableSelection, discoveredTables, dmPc, autoIndexPost>>

\* the Select All checkbox
ToggleAllTables ==
  /\ showTableSelection
  /\ selectedTables' = IF Len(selectedTables) = Len(discoveredTables)
                       THEN <<>>
                       ELSE Names(discoveredTables)
  /\ UNCHANGED <<askVars, dmDatabaseId, dmLoading, dmMessage, showAutoIndex,
                 showTableSelection, discoveredTables, dmPc, autoIndexPost>>

\* the body of the auto-index request, less the credentials
AutoIndexRequest ==
  [database_id |-> dmDatabaseId, selected_tables |-> selectedTables]

\* autoIndex up to its await
AutoIndex ==
  IF TrimString(dmDatabaseId) = ""
  THEN /\ dmMessage' = [type |-> "error", text |-> "Please enter a Database ID"]
       /\ UNCHANGED <<askVars, dmDatabaseId, dmLoading, showAutoIndex,
                      showTableSelection, discoveredTables, selectedTables,
                      dmPc, autoIndexPost>>
  ELSE IF Len(selectedTables) = 0
  THEN /\ dmMessage' = [type |-> "error",
                        text |-> "Please select at least one table to index"]
       /\ UNCHANGED <<askVars, dmDatabaseId, dmLoading, showAutoIndex,
                      showTableSelection, discoveredTables, selectedTables,
                      dmPc, autoIndexPost>>
  ELSE /\ dmLoading' = TRUE
       /\ dmMessage' = nullObj
       /\ autoIndexPost' = AutoIndexRequest
       /\ dmPc' = "autoIndex"
       /\ UNCHANGED <<askVars, dmDatabaseId, showAutoIndex, showTableSelection,
                      discoveredTables, selectedTables>>

\* the Index Selected Tables button: drawn in the panel while the table list
\* is shown, disabled={loading}
ClickAutoIndex ==
  /\ showAutoIndex
  /\ showTableSelection
  /\ ~dmLoading
  /\ AutoIndex

\* axios.post resolves: the form is reset, then finally
AutoIndexResolve ==
  /\ dmPc = "autoIndex"
  /\ dmMessage' = [type |-> "success", text |-> "Indexed"]
  /\ showAutoIndex' = FALSE
  /\ showTableSelection' = FALSE
  /\ discoveredTables' = <<>>
  /\ selectedTables' = <<>>
  /\ dmDatabaseId' = ""
  /\ dmLoading' = FALSE
  /\ dmPc' = "idle"
  /\ UNCHANGED <<askVars, autoIndexPost>>

\* axios.post rejects: catch, then finally
AutoIndexReject(message) ==
  /\ dmPc = "autoIndex"
  /\ dmMessage' = [type |-> "error", text |-> message]
  /\ dmLoading' = FALSE
  /\ dmPc' = "idle"
  /\ UNCHANGED <<askVars, dmDatabaseId, showAutoIndex, showTableSelection,
                 discoveredTables, selectedTables, autoIndexPost>>

\* cancelAutoIndex
CancelAutoIndex ==
  /\ showAutoIndex' = FALSE
  /\ showTableSelection' = FALSE
  /\ discoveredTables' = <<>>
  /\ selectedTables' = <<>>
  /\ dmMessage' = nullObj
  /\ UNCHANGED <<askVars, dmDatabaseId, dmLoading, dmPc, autoIndexPost>>

\* the Cancel button of the panel: disabled={loading} only while the table
\* list is shown
ClickCancel ==
  /\ showAutoIndex
  /\ showTableSelection => ~dmLoading
  /\ CancelAutoIndex

NextManager ==
  \/ ToggleAutoIndexPanel
  \/ \E d \in ManagerIds : SetManagerDatabaseId(d)
  \/ ClickDiscover
  \/ \E tables \in DiscoverResponses : DiscoverResolve(tables)
  \/ \E m \in ManagerErrors : DiscoverReject(m)
  \/ \E n \in TableNames : ToggleTableSelection(n)
  \/ ToggleAllTables
  \/ ClickAutoIndex
  \/ AutoIndexResolve
  \/ \E m \in ManagerErrors : AutoIndexReject(m)
  \/ ClickCancel

\* the manager alone: no question is asked
InitManager ==
  /\ scripts = << <<>> >>
  /\ InitComponent

SpecManager == InitManager /\ [][NextManager]_vars


(***************************************************************************)
(* C38  In DatabaseManager, whatever discoverTables, toggleTableSelection, *)
(* toggleAllTables, cancelAutoIndex and autoIndex have done so far,        *)
(* selectedTables holds no name twice and only names of the tables in      *)
(* discoveredTables; and a step in which autoIndex posts its request       *)
(* starts with a database id that is not blank and with at least one       *)
(* table selected, and posts exactly that id and that selection.           *)
(***************************************************************************)
NoDuplicates(array) ==
  \A j, k \in DOMAIN array : array[j] = array[k] => j = k

SelectionWithinDiscovered ==
  /\ NoDuplicates(selectedTables)
  /\ \A k \in DOMAIN selectedTables :
       \E t \in DOMAIN discoveredTables :
         discoveredTables[t].name = selectedTables[k]

\* this step is autoIndex reaching its axios.post
AutoIndexPosts == dmPc # "autoIndex" /\ dmPc' = "autoIndex"

C38_SelectionSoundAndPostGuarded ==
  /\ []SelectionWithinDiscovered
  /\ [][AutoIndexPosts =>
          /\ ~Blank(dmDatabaseId)
          /\ selectedTables # <<>>
          /\ autoIndexPost' = [database_id |-> dmDatabaseId,
                               selected_tables |-> selectedTables]]_vars

\* a request is in flight for a selection that was narrowed by hand, and the
\* user goes on ticking tables in another order than the discovery's
C38_Witness ==
  /\ dmPc = "autoIndex"
  /\ Len(discoveredTables) = 2
  /\ autoIndexPost = [database_id |-> "shop",
                      selected_tables |-> <<discoveredTables[1].name>>]
  /\ selectedTables = <<discoveredTables[2].name, discoveredTables[1].name>>

====
